---- MODULE Spec2Model ----
(***************************************************************************)
(* A model of the catalog importer of cad4less-catalog (src/app.py with    *)
(* the schema of src/models.py): the CSV dispatcher, the simple parts      *)
(* importer, the Shopify product importer, and the build and part          *)
(* handlers that share the catalog tables with them.                       *)
(*                                                                         *)
(* Text is modelled by TLA+ strings over a finite vocabulary; str.strip    *)
(* and str.lower are tables over that vocabulary.  A request runs in one   *)
(* SQLAlchemy session: `sess` is the session's view of the tables, `db`    *)
(* the committed tables.                                                   *)
(***************************************************************************)
EXTENDS Integers, Sequences, FiniteSets, TLC

VARIABLES
    db,       \* the committed tables
    sess,     \* the tables as the running request's session sees them
    enforce,  \* whether the database file carries the unique indexes on names
    pc,       \* "idle", the importer loop the running request is in, or "done"
    file,     \* the CSV file of the running or the last import
    i,        \* index of the next data row the importer loop reads
    cnt,      \* the counters of the running or the last import
    op,       \* the running or the last request
    exc,      \* the exception the last request ended with, "" for none
    before,   \* the committed tables when the running or last request began
    nreq,     \* number of requests begun
    arg,      \* the arguments of a helper function called on its own
    ret,      \* what that call returned
    procs     \* the imports that two workers of the server run side by side

vars == <<db, sess, enforce, pc, file, i, cnt, op, exc, before, nreq, arg, ret, procs>>

-----------------------------------------------------------------------------
(* Bounds of the model *)

\* requests in one run
MaxRequests == 3
\* data lines in one CSV file
MaxRows == 2
\* characters in a price text passed to _parse_price on its own
MaxPriceLen == 4

-----------------------------------------------------------------------------
(* Text *)

\* Python's None, where a text value may be absent
None == "None"

Max(S) == CHOOSE x \in S : \A y \in S : y <= x

\* str.strip() on the vocabulary
Strip(s) ==
    CASE s = " Body (HTML) " -> "Body (HTML)"
      [] s = " body (html) " -> "body (html)"
      [] s = " Status "      -> "Status"
      [] s = " status "      -> "status"
      [] s = " Title "       -> "Title"
      [] s = " title "       -> "title"
      [] s = " Name "        -> "Name"
      [] s = " name "        -> "name"
      [] s = " i7 "          -> "i7"
      [] s = " CPU "         -> "CPU"
      [] s = " PC1 "         -> "PC1"
      [] s = " draft "       -> "draft"
      [] s = " active "      -> "active"
      [] s = " 2 "           -> "2"
      [] s = "  "            -> ""
      [] OTHER               -> s

\* str.lower() on the vocabulary
Lower(s) ==
    CASE s = "Body (HTML)"   -> "body (html)"
      [] s = " Body (HTML) " -> " body (html) "
      [] s = "BODY (HTML)"   -> "body (html)"
      [] s = "Body HTML"     -> "body html"
      [] s = "Title"         -> "title"
      [] s = " Title "       -> " title "
      [] s = "TITLE"         -> "title"
      [] s = "Status"        -> "status"
      [] s = " Status "      -> " status "
      [] s = "STATUS"        -> "status"
      [] s = "Handle"        -> "handle"
      [] s = "Name"          -> "name"
      [] s = " Name "        -> " name "
      [] s = "NAME"          -> "name"
      [] s = "Product Name"  -> "product name"
      [] s = "Part"          -> "part"
      [] s = "Item"          -> "item"
      [] s = "Category"      -> "category"
      [] s = "Category Name" -> "category name"
      [] s = "Type"          -> "type"
      [] s = "Group"         -> "group"
      [] s = "Brand"         -> "brand"
      [] s = "Manufacturer"  -> "manufacturer"
      [] s = "Maker"         -> "maker"
      [] s = "URL"           -> "url"
      [] s = "Link"          -> "link"
      [] s = "Product URL"   -> "product url"
      [] s = "Price"         -> "price"
      [] s = "Cost"          -> "cost"
      [] s = "Unit Price"    -> "unit price"
      [] s = "MSRP"          -> "msrp"
      [] s = "Active"        -> "active"
      [] s = "ACTIVE"        -> "active"
      [] s = "Draft"         -> "draft"
      [] s = "CPU"           -> "cpu"
      [] s = " CPU "         -> " cpu "
      [] s = "Storage"       -> "storage"
      [] s = "PC1"           -> "pc1"
      [] s = " PC1 "         -> " pc1 "
      [] s = "PC2"           -> "pc2"
      [] OTHER               -> s

\* str.upper() on the cell texts of the vocabulary
Upper(s) ==
    CASE s = "n/a"       -> "N/A"
      [] s = "i7"        -> "I7"
      [] s = "ssd"       -> "SSD"
      [] s = "hdd"       -> "HDD"
      [] s = "3 years"   -> "3 YEARS"
      [] s = "Processor" -> "PROCESSOR"
      [] s = "Drive 1"   -> "DRIVE 1"
      [] s = "Drive 2"   -> "DRIVE 2"
      [] s = "Warranty"  -> "WARRANTY"
      [] s = "Cooler"    -> "COOLER"
      [] OTHER           -> s

-----------------------------------------------------------------------------
(* csv.DictReader *)

\* A CSV file is its header line and its data lines, each a sequence of fields.
\* reader.fieldnames of a file without any line is None, read as [] (line 478).
EmptyFile == [header |-> <<>>, rows |-> <<>>]

\* One row as DictReader yields it: the (key, value) items in header order,
\* a short line padded with None, and the surplus fields of a long line kept
\* under the key None (restkey).
DictRow(header, line) ==
    [items |-> [k \in 1..Len(header) |->
                    <<header[k], IF k <= Len(line) THEN line[k] ELSE None>>],
     rest  |-> Len(line) > Len(header)]

\* dict.get on a sequence of items; a later item of the same key wins
Get(items, key) ==
    LET at == {k \in DOMAIN items : items[k][1] = key}
    IN  IF at = {} THEN None ELSE items[Max(at)][2]

\* {k.lower(): v for k, v in row.items()}
Lowered(items) == [k \in DOMAIN items |-> <<Lower(items[k][1]), items[k][2]>>]

RECURSIVE PickFrom(_, _, _)
PickFrom(lowered, candidates, default) ==
    IF candidates = <<>> THEN default
    ELSE LET v == Get(lowered, Lower(Head(candidates)))
         IN  IF v # None /\ Strip(v) # "" THEN v
             ELSE PickFrom(lowered, Tail(candidates), default)

\* _pick(row, *candidates): the key None of a long line has no lower()
PickRaises(row) == row.rest
_pick(row, candidates) == PickFrom(Lowered(row.items), candidates, None)

-----------------------------------------------------------------------------
(* Price text (_parse_price) *)

\* A price text is the sequence of its characters; the pound, euro and taka
\* glyphs are the characters "pound", "euro" and "taka".  NoText is Python's
\* None where a text may be absent.
NoText == <<"None">>

Digits == {"0", "1", "2", "3", "4", "5", "6", "7", "8", "9"}

DigitOf(c) ==
    CASE c = "0" -> 0 [] c = "1" -> 1 [] c = "2" -> 2 [] c = "3" -> 3
      [] c = "4" -> 4 [] c = "5" -> 5 [] c = "6" -> 6 [] c = "7" -> 7
      [] c = "8" -> 8 [] c = "9" -> 9

RECURSIVE LStrip(_)
LStrip(s) == IF s # <<>> /\ Head(s) = " " THEN LStrip(Tail(s)) ELSE s

RECURSIVE RStrip(_)
RStrip(s) ==
    IF s # <<>> /\ s[Len(s)] = " " THEN RStrip(SubSeq(s, 1, Len(s) - 1)) ELSE s

\* str.strip() on characters
StripChars(s) == RStrip(LStrip(s))

StartsWith(s, token) == Len(token) <= Len(s) /\ SubSeq(s, 1, Len(token)) = token

\* s.replace(token, ""): the occurrences found from the left, none overlapping
RECURSIVE Replace(_, _)
Replace(s, token) ==
    IF s = <<>> THEN <<>>
    ELSE IF StartsWith(s, token)
         THEN Replace(SubSeq(s, Len(token) + 1, Len(s)), token)
         ELSE <<Head(s)>> \o Replace(Tail(s), token)

\* for ch in ("$", pound, euro, taka, "Tk", "tk", "BDT")
CurrencyTokens ==
    << <<"$">>, <<"pound">>, <<"euro">>, <<"taka">>, <<"T", "k">>, <<"t", "k">>,
       <<"B", "D", "T">> >>

RECURSIVE ReplaceEach(_, _)
ReplaceEach(s, tokens) ==
    IF tokens = <<>> THEN s
    ELSE ReplaceEach(Replace(s, Head(tokens)), Tail(tokens))

\* A float is held as its value times PriceScale, an integer for every
\* decimal text of at most MaxPriceLen characters.
PriceScale == 10 ^ MaxPriceLen

Absent == [kind |-> "None", val |-> 0]
NaN == [kind |-> "nan", val |-> 0]

RECURSIVE DigitsValue(_)
DigitsValue(ds) ==
    IF ds = <<>> THEN 0
    ELSE DigitsValue(SubSeq(ds, 1, Len(ds) - 1)) * 10 + DigitOf(ds[Len(ds)])

AllDigits(s) == \A k \in DOMAIN s : s[k] \in Digits

\* float(s) for a text of blanks, signs, digits, dots and lower-case letters:
\* surrounding blanks go, a sign may lead, then "nan", "inf" or a decimal
\* with a digit on one side of the dot at least; anything else is a
\* ValueError
Float(s) ==
    LET t      == StripChars(s)
        signed == t # <<>> /\ Head(t) \in {"-", "+"}
        body   == IF signed THEN Tail(t) ELSE t
        sign   == IF signed /\ Head(t) = "-" THEN -1 ELSE 1
        dots   == {k \in DOMAIN body : body[k] = "."}
        dot    == CHOOSE k \in dots : \A j \in dots : k <= j
        whole  == IF dots = {} THEN body ELSE SubSeq(body, 1, dot - 1)
        frac   == IF dots = {} THEN <<>> ELSE SubSeq(body, dot + 1, Len(body))
    IN  IF body = <<"n", "a", "n">> THEN NaN
        ELSE IF body \in {<<"i", "n", "f">>, <<"i", "n", "f", "i", "n", "i", "t", "y">>}
             THEN [kind |-> "inf", val |-> sign]
        ELSE IF AllDigits(whole) /\ AllDigits(frac) /\ Len(whole) + Len(frac) >= 1
                  /\ Len(frac) <= MaxPriceLen
             THEN [kind |-> "float",
                   val  |-> sign * (DigitsValue(whole) * PriceScale
                                    + DigitsValue(frac) * 10 ^ (MaxPriceLen - Len(frac)))]
        ELSE [kind |-> "ValueError", val |-> 0]

_parse_price(val) ==
    IF val = NoText THEN Absent
    ELSE LET s == StripChars(val)
             f == Float(ReplaceEach(Replace(s, <<",">>), CurrencyTokens))
         IN  IF s = <<>> THEN Absent
             ELSE IF f.kind = "ValueError" THEN Absent
             ELSE f

\* the characters of a price cell of the vocabulary; a text it does not list
\* is one character that no number holds
Text(v) ==
    CASE v = None  -> NoText
      [] v = ""    -> <<>>
      [] v = "0"   -> <<"0">>
      [] v = "10"  -> <<"1", "0">>
      [] v = "$10" -> <<"$", "1", "0">>
      [] v = "20"  -> <<"2", "0">>
      [] v = "n/a" -> <<"n", "/", "a">>
      [] v = "nan" -> <<"n", "a", "n">>
      [] OTHER     -> <<v>>

\* part.price != price on floats: NaN differs from every float, itself included
PriceDiffers(a, b) == a.kind = "nan" \/ b.kind = "nan" \/ a # b

\* what SQLite keeps of a bound float: NaN is stored as NULL
SqlFloat(price) == IF price.kind = "nan" THEN Absent ELSE price

-----------------------------------------------------------------------------
(* The tables (src/models.py) and the SQLAlchemy session *)

\* category(id, name), part(id, name, cat, price), build(id, name),
\* build_part(build, part, quantity); cat = 0 is a NULL category_id and
\* price = Absent a NULL price.
EmptyTables == [cats |-> {}, parts |-> {}, builds |-> {}, links |-> {}]

\* A session on the committed tables d: nothing pending, nothing raised.
\* pparts and plinks are the objects added and not yet flushed.
Session(d) ==
    [cats |-> d.cats, parts |-> d.parts, builds |-> d.builds, links |-> d.links,
     pparts |-> <<>>, plinks |-> <<>>, exc |-> ""]

\* the rows as the database holds them once the session has written them
Tables(s) ==
    [cats |-> s.cats,
     parts |-> {[p EXCEPT !.price = SqlFloat(@)] : p \in s.parts},
     builds |-> s.builds, links |-> s.links]

\* An exception ends the request's work: later statements do not run.
Raise(s, e) == IF s.exc # "" THEN s ELSE [s EXCEPT !.exc = e]

\* SQLite gives an INTEGER PRIMARY KEY the largest rowid of the table plus one.
NextId(rows) == IF rows = {} THEN 1 ELSE Max({r.id : r \in rows}) + 1

\* a Category table whose index on the name refuses nothing
CategoryNameNeverTaken(s, name) == FALSE

\* Category.name: unique=True
CategoryNameTaken(s, name) == enforce /\ \E c \in s.cats : c.name = name

\* Part.name: unique=True, on the name alone
PartNameTaken(s, name) == enforce /\ \E p \in s.parts : p.name = name

\* BuildPart: composite primary key (build_id, part_id)
LinkKeyTaken(s, b, p) == \E l \in s.links : l.build = b /\ l.part = p

RECURSIVE FlushParts(_)
FlushParts(s) ==
    IF s.exc # "" \/ s.pparts = <<>> THEN s
    ELSE LET p == Head(s.pparts)
         IN  IF PartNameTaken(s, p.name) THEN Raise(s, "IntegrityError")
             ELSE FlushParts([s EXCEPT
                     !.parts = @ \cup {[id |-> NextId(s.parts), name |-> p.name,
                                        cat |-> p.cat, price |-> p.price]},
                     !.pparts = Tail(@)])

RECURSIVE FlushLinks(_)
FlushLinks(s) ==
    IF s.exc # "" \/ s.plinks = <<>> THEN s
    ELSE LET l == Head(s.plinks)
         IN  IF LinkKeyTaken(s, l.build, l.part) THEN Raise(s, "IntegrityError")
             ELSE FlushLinks([s EXCEPT !.links = @ \cup {l}, !.plinks = Tail(@)])

\* session.flush(), also run by autoflush before every query: the pending
\* objects are inserted, parts before the build_part rows that refer to them.
Flush(s) == FlushLinks(FlushParts(s))

\* db.session.add(Category(name=...)); db.session.flush()
InsertCategory(s, name) ==
    IF s.exc # "" THEN s
    ELSE IF CategoryNameTaken(s, name) THEN Raise(s, "IntegrityError")
    ELSE [s EXCEPT !.cats = @ \cup {[id |-> NextId(s.cats), name |-> name]}]

\* db.session.add(Build(name=...)); db.session.flush()
InsertBuild(s, name) ==
    IF s.exc # "" THEN s
    ELSE [s EXCEPT !.builds = @ \cup {[id |-> NextId(s.builds), name |-> name]}]

\* db.session.add(Part(...)) without a flush: the part waits for the next one
AddPart(s, name, cat, price) ==
    IF s.exc # "" THEN s
    ELSE [s EXCEPT !.pparts = Append(@, [name |-> name, cat |-> cat, price |-> price])]

\* db.session.add(Part(...)); db.session.flush()
InsertPart(s, name, cat) == Flush(AddPart(s, name, cat, Absent))

\* db.session.add(BuildPart(build_id, part_id, quantity)) without a flush
AddLink(s, b, p, q) ==
    IF s.exc # "" THEN s
    ELSE [s EXCEPT !.plinks = Append(@, [build |-> b, part |-> p, quantity |-> q])]

\* Query.first() over rows that matched: the row of the least rowid, 0 for None
First(rows) == IF rows = {} THEN 0 ELSE -Max({-r.id : r \in rows})

\* Category.query.filter_by(name=name).first()
FirstCategory(s, name) == First({c \in s.cats : c.name = name})

\* FirstPart with the category filter aimed at the rows without a category
FirstPartUncategorized(s, name, cat) ==
    First({p \in s.parts : p.name = name /\ p.cat = 0})

\* Part.query.filter_by(name=name)[.filter_by(category_id=cat)].first();
\* cat = 0 stands for the query on the name alone
FirstPart(s, name, cat) ==
    First({p \in s.parts : p.name = name /\ (cat = 0 \/ p.cat = cat)})

\* Part.query.filter_by(name=name, category_id=cat).first()
FirstPartIn(s, name, cat) ==
    First({p \in s.parts : p.name = name /\ p.cat = cat})

\* Build.query.filter_by(name=name).first()
FirstBuild(s, name) == First({b \in s.builds : b.name = name})

\* DeleteLinksOfBuild that deletes nothing
KeepLinksOfBuild(s, b) == s

\* BuildPart.query.filter_by(build_id=b).delete()
DeleteLinksOfBuild(s, b) ==
    IF s.exc # "" THEN s ELSE [s EXCEPT !.links = {l \in @ : l.build # b}]

\* BuildPart.query.filter_by(part_id=p).delete()
DeleteLinksOfPart(s, p) ==
    IF s.exc # "" THEN s ELSE [s EXCEPT !.links = {l \in @ : l.part # p}]

-----------------------------------------------------------------------------
(* The specification table of a product description *)

\* Description texts of the vocabulary.  A text that holds markup is named by
\* its table rows; PlainText holds no angle bracket.
Html3      == "<table><tr><td>Processor</td><td>i7</td></tr><tr><td>Drive 1</td><td>ssd</td></tr><tr><td>Drive 2</td><td>hdd</td></tr></table>"
Html2      == "<table><tr><td>Processor</td><td>i7</td></tr><tr><td>Drive 1</td><td>ssd</td></tr></table>"
HtmlDup    == "<table><tr><td>Drive 1</td><td>ssd</td></tr><tr><td>Drive 2</td><td>ssd</td></tr></table>"
HtmlCross  == "<table><tr><td>Processor</td><td>ssd</td></tr></table>"
HtmlNoise  == "<table><tr><td>Warranty</td><td>3 years</td></tr><tr><td>Processor(R)</td><td> i7 </td></tr><tr><td>Drive 1</td><td>N/A</td></tr><tr><td>Cooler</td><td>hdd</td></tr><tr><td>Drive 2</td></tr></table>"
HtmlNoRows == "<p>Fast PC</p>"
PlainText  == "Fast PC"

HtmlTexts == {Html3, Html2, HtmlDup, HtmlCross, HtmlNoise, HtmlNoRows}

\* "<" in str(body_html)
HasAngle(text) == text \in HtmlTexts

\* soup.find_all("tr") with each row's cells read by get_text(" ", strip=True):
\* the cell texts of every table row, in document order
TableRows(html) ==
    CASE html = Html3     -> << <<"Processor", "i7">>, <<"Drive 1", "ssd">>,
                                <<"Drive 2", "hdd">> >>
      [] html = Html2     -> << <<"Processor", "i7">>, <<"Drive 1", "ssd">> >>
      [] html = HtmlDup   -> << <<"Drive 1", "ssd">>, <<"Drive 2", "ssd">> >>
      [] html = HtmlCross -> << <<"Processor", "ssd">> >>
      [] html = HtmlNoise -> << <<"Warranty", "3 years">>, <<"Processor(R)", "i7">>,
                                <<"Drive 1", "N/A">>, <<"Cooler", "hdd">>,
                                <<"Drive 2">> >>
      [] OTHER            -> << >>

\* _clean: the trademark glyphs go ((R) stands for the glyph), white space is
\* collapsed and trimmed, and a placeholder is None
_clean(s) ==
    LET noMark == CASE s = "Processor(R)" -> "Processor" [] OTHER -> s
        t      == Strip(noMark)
    IN  IF Upper(t) \in {"N/A", "NA", "NONE", "-", ""} THEN None ELSE t

\* " ".join(texts of cells[1:]); the rows of the vocabulary have one value cell
JoinCells(cells) == cells[2]

\* the (label, value) pairs of the rows with two cells or more and both texts
RECURSIVE Pairs(_)
Pairs(trs) ==
    IF trs = <<>> THEN <<>>
    ELSE LET cells == Head(trs)
             label == _clean(cells[1])
             value == _clean(JoinCells(cells))
         IN  IF Len(cells) >= 2 /\ label # None /\ value # None
             THEN <<<<label, value>>>> \o Pairs(Tail(trs))
             ELSE Pairs(Tail(trs))

\* LABEL_TO_CATEGORY.get(label), None for a label it does not hold
LABEL_TO_CATEGORY(label) ==
    CASE label \in {"Processor", "CPU"}                      -> "CPU"
      [] label \in {"System Board", "Motherboard"}           -> "Motherboard"
      [] label \in {"RAM", "Memory"}                         -> "Memory"
      [] label \in {"Graphics", "Graphics Card", "GPU"}      -> "GPU"
      [] label \in {"Drive 1", "Drive 2", "Drive 3", "Storage"} -> "Storage"
      [] label \in {"Power Supply", "PSU"}                   -> "PSU"
      [] label = "Case"                                      -> "Case"
      [] label = "Optical Drive"                             -> "Optical Drive"
      [] label \in {"OS", "Operating System"}                -> "OS"
      [] label = "Controller"                                -> "Storage Controller"
      [] label = "RAID"                                      -> "RAID"
      [] label = "Ports"                                     -> "I/O Ports"
      [] label = "Input Devices"                             -> "Peripherals"
      [] OTHER                                               -> None

SKIP == {"System Status", "Tech Support", "Warranty"}

\* out.setdefault(cat, []).append(value) on a dict kept in insertion order:
\* a sequence of <<category name, part names>>
SetDefaultAppend(out, cat, value) ==
    IF \E k \in DOMAIN out : out[k][1] = cat
    THEN [k \in DOMAIN out |->
            IF out[k][1] = cat THEN <<cat, Append(out[k][2], value)>> ELSE out[k]]
    ELSE Append(out, <<cat, <<value>>>>)

RECURSIVE Collect(_, _)
Collect(pairs, out) ==
    IF pairs = <<>> THEN out
    ELSE LET label == Head(pairs)[1]
             cat   == LABEL_TO_CATEGORY(label)
         IN  IF label \in SKIP \/ cat = None THEN Collect(Tail(pairs), out)
             ELSE Collect(Tail(pairs), SetDefaultAppend(out, cat, Head(pairs)[2]))

_extract_parts_from_spec_html(html_text) == Collect(Pairs(TableRows(html_text)), <<>>)

-----------------------------------------------------------------------------
(* The importers (import_csv_into_db, _import_shopify_pc_csv) *)

ZeroCounters ==
    [mode |-> "", parts_added |-> 0, parts_updated |-> 0, rows_seen |-> 0, builds_created |-> 0,
     builds_updated |-> 0, parts_created |-> 0, links_created |-> 0]

\* IsShopifyHeader on the fieldnames as read, not stripped
IsShopifyHeaderUnstripped(header) ==
    \E k \in DOMAIN header : Lower(header[k]) = Lower("Body (HTML)")

\* any(fn.lower() == "body (html)".lower() for fn in fieldnames), the
\* fieldnames stripped
IsShopifyHeader(header) ==
    \E k \in DOMAIN header : Lower(Strip(header[k])) = Lower("Body (HTML)")

\* CategoryFor that never looks the category up
CategoryForAlwaysNew(s, name) == InsertCategory(Flush(s), name)

\* Category.query.filter_by(name=name).first(), and a new Category flushed at
\* once when there is none
CategoryFor(s, name) ==
    LET s1 == Flush(s)
    IN  IF s1.exc # "" \/ FirstCategory(s1, name) # 0 THEN s1
        ELSE InsertCategory(s1, name)

\* lines 502-519 for a row with a name, cat the id of its category or 0: the
\* part is looked up, added when there is none, and takes the row's price
\* when it has one that differs
UpsertPart(s, c, row, cat) ==
    LET product_name == _pick(row, <<"Product Name", "Name", "Part", "Item", "Title">>)
        price == _parse_price(Text(_pick(row, <<"Price", "Cost", "Unit Price", "MSRP">>)))
        s2   == Flush(s)
        part == FirstPart(s2, Strip(product_name), cat)
        old  == CHOOSE p \in s2.parts : p.id = part
    IN  IF s2.exc # "" THEN [s |-> s2, cnt |-> c]
        ELSE IF part = 0
             THEN [s |-> AddPart(s2, Strip(product_name), cat, price),
                   cnt |-> [c EXCEPT !.parts_added = @ + 1]]
        ELSE IF price # Absent /\ PriceDiffers(old.price, price)
             THEN [s |-> [s2 EXCEPT !.parts = (@ \ {old}) \cup {[old EXCEPT !.price = price]}],
                   cnt |-> [c EXCEPT !.parts_updated = @ + 1]]
             ELSE [s |-> s2, cnt |-> c]

\* the body of the loop of the simple importer, for one row.  Part has no
\* brand and no url attribute (src/models.py), so hasattr(part, "brand") and
\* hasattr(part, "url") are false and neither value is kept; an existing part
\* takes the row's price when there is one and it differs.
SimpleRow(s, c, row) ==
    IF PickRaises(row) THEN [s |-> Raise(s, "AttributeError"), cnt |-> c]
    ELSE
    LET category_name == _pick(row, <<"Category", "Category Name", "Type", "Group">>)
        product_name  == _pick(row, <<"Product Name", "Name", "Part", "Item", "Title">>)
        s1   == IF category_name # None THEN CategoryFor(s, Strip(category_name)) ELSE s
        cat  == IF category_name # None THEN FirstCategory(s1, Strip(category_name)) ELSE 0
    IN  IF product_name = None THEN [s |-> s, cnt |-> c]
        ELSE UpsertPart(s1, c, row, cat)

\* for item in items: the part of that name in the category, created and
\* flushed when there is none, then a BuildPart of quantity 1 added
RECURSIVE LinkItems(_, _, _, _, _)
LinkItems(s, c, build, category, items) ==
    IF s.exc # "" \/ items = <<>> THEN [s |-> s, cnt |-> c]
    ELSE
    LET item == Head(items)
        s1   == Flush(s)
        part == FirstPartIn(s1, Strip(item), category)
        s2   == IF part = 0 THEN InsertPart(s1, Strip(item), category) ELSE s1
        pid  == IF part = 0 THEN FirstPartIn(s2, Strip(item), category) ELSE part
        c2   == IF part = 0 THEN [c EXCEPT !.parts_created = @ + 1] ELSE c
    IN  IF item = "" THEN LinkItems(s, c, build, category, Tail(items))
        ELSE IF s2.exc # "" THEN [s |-> s2, cnt |-> c]
        ELSE LinkItems(AddLink(s2, build, pid, 1),
                       [c2 EXCEPT !.links_created = @ + 1],
                       build, category, Tail(items))

\* for cat_name, items in parts_by_cat.items()
RECURSIVE LinkCategories(_, _, _, _)
LinkCategories(s, c, build, parts_by_cat) ==
    IF s.exc # "" \/ parts_by_cat = <<>> THEN [s |-> s, cnt |-> c]
    ELSE
    LET cat_name == Head(parts_by_cat)[1]
        s1       == CategoryFor(s, cat_name)
        category == FirstCategory(s1, cat_name)
        done     == LinkItems(s1, c, build, category, Head(parts_by_cat)[2])
    IN  IF s1.exc # "" THEN [s |-> s1, cnt |-> c]
        ELSE LinkCategories(done.s, done.cnt, build, Tail(parts_by_cat))

\* the product row is skipped: no title, no description, or a description
\* without markup
ShopifyUnusable(row) ==
    LET title     == _pick(row, <<"Title">>)
        body_html == Get(row.items, "Body (HTML)")
    IN  title = None \/ body_html \in {None, ""} \/ ~HasAngle(body_html)

\* status = (row.get("Status") or "").strip().lower()
ShopifyStatus(row) ==
    LET v == Get(row.items, "Status")
    IN  Lower(Strip(IF v = None THEN "" ELSE v))

\* ShopifyInactive that knows the inactive statuses in lower case only
ShopifyInactiveCaseSensitive(row) ==
    Get(row.items, "Status") \in {"draft", "archived"}

\* if status and status != "active": continue
ShopifyInactive(row) == ShopifyStatus(row) # "" /\ ShopifyStatus(row) # "active"

\* BuildFor that never looks the build up
BuildForAlwaysNew(s, name) == InsertBuild(Flush(s), name)

\* Build.query.filter_by(name=title.strip()).first(), a new Build flushed at
\* once when there is none
BuildFor(s, name) ==
    LET s1 == Flush(s)
    IN  IF s1.exc # "" \/ FirstBuild(s1, name) # 0 THEN s1 ELSE InsertBuild(s1, name)

\* the body of the loop of the Shopify importer, for one row
ShopifyRow(s, c, row) ==
    LET c1 == [c EXCEPT !.rows_seen = @ + 1]
    IN
    IF PickRaises(row) THEN [s |-> Raise(s, "AttributeError"), cnt |-> c1]
    ELSE IF ShopifyUnusable(row) \/ ShopifyInactive(row) THEN [s |-> s, cnt |-> c1]
    ELSE
    LET name  == Strip(_pick(row, <<"Title">>))
        found == FirstBuild(Flush(s), name)
        s1    == BuildFor(s, name)
        build == FirstBuild(s1, name)
        c2    == IF found = 0 THEN [c1 EXCEPT !.builds_created = @ + 1]
                              ELSE [c1 EXCEPT !.builds_updated = @ + 1]
        parts_by_cat == _extract_parts_from_spec_html(Get(row.items, "Body (HTML)"))
        s2    == DeleteLinksOfBuild(s1, build)
    IN  IF s1.exc # "" THEN [s |-> s1, cnt |-> c1]
        ELSE LinkCategories(s2, c2, build, parts_by_cat)

-----------------------------------------------------------------------------
(* The build and part handlers *)

\* str.isdigit() and int() on the quantity texts of the vocabulary
IsDigit(v) == v \in {"0", "2"}
ToInt(v) == CASE v = "2" -> 2 [] OTHER -> 0

\* qty = 1; if v and str(v).strip().isdigit(): qty = max(1, int(v))
Quantity(v) ==
    IF v # "" /\ IsDigit(Strip(v)) /\ ToInt(Strip(v)) > 1 THEN ToInt(Strip(v)) ELSE 1

\* the loop of create_build over the form's part_<id> fields, a sequence of
\* <<part id, quantity text>>: Part.query.get(part_id), and a BuildPart added
\* when the part exists
RECURSIVE LinkForm(_, _, _)
LinkForm(s, build, fields) ==
    IF s.exc # "" \/ fields = <<>> THEN s
    ELSE LET part_id == Head(fields)[1]
             s1      == Flush(s)
         IN  IF s1.exc = "" /\ \E p \in s1.parts : p.id = part_id
             THEN LinkForm(AddLink(s1, build, part_id, Quantity(Head(fields)[2])),
                           build, Tail(fields))
             ELSE LinkForm(s1, build, Tail(fields))

\* create_build, up to its commit; a blank name changes nothing
create_build(s, name, fields) ==
    IF Strip(name) = "" THEN s
    ELSE LET s1 == InsertBuild(s, Strip(name))
         IN  LinkForm(s1, NextId(s.builds), fields)

\* DeleteBuild without the cascade to the build's lines
DeleteBuildNoCascade(s, b) == [s EXCEPT !.builds = {x \in @ : x.id # b}]

\* db.session.delete(b): Build.build_parts cascades "all, delete-orphan"
DeleteBuild(s, b) ==
    [s EXCEPT !.builds = {x \in @ : x.id # b}, !.links = {l \in @ : l.build # b}]

\* BuildPart.query.filter_by(part_id=p.id).delete(); db.session.delete(p),
\* where Part.build_parts cascades "all, delete-orphan" as well
DeletePartRow(s, p) ==
    LET s1 == DeleteLinksOfPart(s, p)
    IN  [s1 EXCEPT !.parts = {x \in @ : x.id # p}, !.links = {l \in @ : l.part # p}]

\* the loops of delete_builds and delete_parts_bulk over the selected ids
RECURSIVE DeleteEach(_, _, _)
DeleteEach(s, ids, kind) ==
    IF ids = <<>> THEN s
    ELSE LET id == Head(ids)
             s1 == IF kind = "build"
                   THEN IF \E b \in s.builds : b.id = id THEN DeleteBuild(s, id) ELSE s
                   ELSE IF \E p \in s.parts : p.id = id THEN DeletePartRow(s, id) ELSE s
         IN  DeleteEach(s1, Tail(ids), kind)

\* delete_part: the links go first, then get_or_404 aborts for an unknown id
delete_part(s, part_id) ==
    LET s1 == DeleteLinksOfPart(s, part_id)
    IN  IF \E p \in s1.parts : p.id = part_id THEN DeletePartRow(s1, part_id)
        ELSE Raise(s1, "NotFound")

-----------------------------------------------------------------------------
(* Requests *)

\* db.session.commit(): the pending objects are flushed, and the session's
\* tables become the committed ones unless the flush raised
Commit(s) == Flush(s)

\* AfterRaise that keeps what the session had flushed
KeepFlushed(d, s) == Tables(s)

\* A request that raised never reaches its commit; the session is removed at
\* the end of the request, which rolls its transaction back.
AfterRaise(d, s) == d

\* the request ends for session s: committed, or rolled back
Finish(s) ==
    /\ pc' = "done"
    /\ exc' = s.exc
    /\ db' = IF s.exc = "" THEN Tables(s) ELSE AfterRaise(db, s)
    /\ sess' = Session(db')

Begin(o, f) ==
    /\ pc = "idle"
    /\ nreq < MaxRequests
    /\ nreq' = nreq + 1
    /\ op' = o
    /\ file' = f
    /\ before' = db
    /\ i' = 1
    /\ UNCHANGED <<arg, ret, procs>>

\* a handler that runs to its commit in one step
Handle(o, s) ==
    /\ Begin(o, EmptyFile)
    /\ Finish(Commit(s))
    /\ cnt' = ZeroCounters
    /\ UNCHANGED enforce

\* the response is out and the application waits for the next request; what
\* is recorded of the request is dropped
Respond ==
    /\ pc = "done"
    /\ pc' = "idle"
    /\ file' = EmptyFile
    /\ i' = 1
    /\ cnt' = ZeroCounters
    /\ op' = ""
    /\ exc' = ""
    /\ before' = db
    /\ UNCHANGED <<db, sess, enforce, nreq, arg, ret, procs>>

\* import_catalog_route calls import_csv_into_db, which reads the header and
\* enters the loop of one importer
ImportBegin(f) ==
    /\ Begin("import", f)
    /\ pc' = IF IsShopifyHeader(f.header) THEN "shopify" ELSE "simple"
    /\ cnt' = [ZeroCounters EXCEPT !.mode = pc']
    /\ sess' = Session(db)
    /\ exc' = ""
    /\ UNCHANGED <<db, enforce>>

\* one turn of the importer's loop; an exception ends the request
ImportRow(mode, r) ==
    /\ pc = mode
    /\ i <= Len(file.rows)
    /\ cnt' = r.cnt
    /\ IF r.s.exc # ""
       THEN Finish(r.s) /\ UNCHANGED i
       ELSE /\ sess' = r.s
            /\ i' = i + 1
            /\ UNCHANGED <<db, pc, exc>>
    /\ UNCHANGED <<enforce, file, op, before, nreq, arg, ret, procs>>

ImportSimpleRow ==
    ImportRow("simple", SimpleRow(sess, cnt, DictRow(file.header, file.rows[i])))

ImportShopifyRow ==
    ImportRow("shopify", ShopifyRow(sess, cnt, DictRow(file.header, file.rows[i])))

\* the importer returns its counters and the route commits (line 390)
ImportCommit ==
    /\ pc \in {"simple", "shopify"}
    /\ i > Len(file.rows)
    /\ Finish(Commit(sess))
    /\ UNCHANGED <<enforce, file, i, cnt, op, before, nreq, arg, ret, procs>>

\* The whole import request on committed tables d, as one function: the
\* dispatch, the loop over the rows, and the route's commit or the rollback.
RECURSIVE RunRows(_, _, _, _, _)
RunRows(mode, s, c, header, rows) ==
    IF s.exc # "" \/ rows = <<>> THEN [s |-> s, cnt |-> c]
    ELSE LET row == DictRow(header, Head(rows))
             r   == IF mode = "shopify" THEN ShopifyRow(s, c, row)
                                        ELSE SimpleRow(s, c, row)
         IN  RunRows(mode, r.s, r.cnt, header, Tail(rows))

ImportRequest(d, f) ==
    LET mode == IF IsShopifyHeader(f.header) THEN "shopify" ELSE "simple"
        r    == RunRows(mode, Session(d), [ZeroCounters EXCEPT !.mode = mode],
                        f.header, f.rows)
        done == Commit(r.s)
    IN  [tables |-> IF done.exc = "" THEN Tables(done) ELSE AfterRaise(d, done),
         exc    |-> done.exc,
         cnt    |-> r.cnt]

CreateBuild(name, fields) ==
    Handle("create_build", create_build(Session(db), name, fields))

DeleteBuilds(ids) ==
    Handle("delete_builds", DeleteEach(Session(db), ids, "build"))

DeletePartsBulk(ids) ==
    Handle("delete_parts_bulk", DeleteEach(Session(db), ids, "part"))

DeletePart(part_id) ==
    Handle("delete_part", delete_part(Session(db), part_id))

-----------------------------------------------------------------------------
(* Two workers of the server *)

Workers == {1, 2}

\* a worker that runs no request: its row index, the category the running
\* row resolved, its session, whether its transaction has written (it then
\* holds SQLite's write lock), and how its import ended
IdleWorker ==
    [pc |-> "idle", file |-> EmptyFile, i |-> 1, cat |-> 0,
     sess |-> Session(EmptyTables), dirty |-> FALSE, exc |-> "", lost |-> <<>>]

-----------------------------------------------------------------------------
(* Inputs *)

\* the sequences of at most n elements of S
RECURSIVE SeqsUpTo(_, _)
SeqsUpTo(S, n) ==
    IF n = 0 THEN {<<>>}
    ELSE LET shorter == SeqsUpTo(S, n - 1)
         IN  shorter \cup {Append(q, x) : q \in shorter, x \in S}

FilesOf(header, lines) ==
    {[header |-> header, rows |-> rows] : rows \in SeqsUpTo(lines, MaxRows)}

SimpleHeader == <<"Name", "Category">>
ShopifyHeader == <<"Title", "Body (HTML)", "Status">>

\* part lines: a categorized part, an uncategorized one, the first part's name
\* under another category, a line without a name, a line longer than the header
SimpleLines ==
    {<<"i7", "CPU">>, <<"hdd", "">>, <<"i7", "Storage">>, <<"", "CPU">>,
     <<"i7", "CPU", "x">>}

\* product lines: three components, two of them, one part on two drive rows,
\* a draft
ShopifyLines ==
    {<<"PC1", Html3, "active">>, <<"PC1", Html2, "active">>,
     <<"PC2", HtmlDup, "">>, <<"PC2", Html2, "draft">>}

CoreFiles ==
    {EmptyFile} \cup FilesOf(SimpleHeader, SimpleLines)
                \cup FilesOf(ShopifyHeader, ShopifyLines)

\* further lines for the runs that only import: padded fields, a short line;
\* a padded title and status over a table with rows to drop, no title, a
\* description without markup, a short and a long line, and a part name under
\* a second category with the status in upper case
MoreSimpleLines == {<<" i7 ", " CPU ">>, <<"hdd">>}

MoreShopifyLines ==
    {<<" PC1 ", HtmlNoise, " active ">>, <<"", Html2, "active">>,
     <<"PC1", PlainText, "active">>, <<"PC1">>, <<"PC1", Html2, "active", "x">>,
     <<"PC2", HtmlCross, "ACTIVE">>}

\* headers spelled otherwise: the description column in another case or
\* padded, a near miss of it, the other columns in another case or padded
HeaderVariants ==
    {<<"title", "Body (HTML)", "Status">>,
     <<"Title", "body (html)", "Status">>, <<"Title", " Body (HTML) ", "Status">>,
     <<"Title", "BODY (HTML)", "Status">>, <<"Title", "Body HTML", "Status">>,
     <<"TITLE", "Body (HTML)", "STATUS">>, <<"Title", "Body (HTML)", " Status ">>,
     <<"NAME", "Category">>, <<" Name ", "Category">>}

VariantLines(header) ==
    IF Len(header) = 3 THEN {<<"PC1", Html2, "active">>, <<"PC1", Html2, "Draft">>}
    ELSE {<<"i7", "CPU">>}

ImportFiles ==
    {EmptyFile} \cup FilesOf(SimpleHeader, SimpleLines \cup MoreSimpleLines)
        \cup FilesOf(ShopifyHeader, ShopifyLines \cup MoreShopifyLines)
        \cup UNION {FilesOf(h, VariantLines(h)) : h \in HeaderVariants}

BuildNames == {"PC1", ""}
QuantityTexts == {"", "2"}

\* ids a form may name: those of the table, and one that no row has
IdsOf(rows) == {r.id : r \in rows} \cup {NextId(rows)}

\* the part_<id> fields of the "new build" form: at most two parts, each once
FormsOf(parts) ==
    {<<>>} \cup {<<<<p, v>>>> : p \in IdsOf(parts), v \in QuantityTexts}
           \cup {<<<<pq[1], "">>, <<pq[2], "">>>> :
                    pq \in {x \in IdsOf(parts) \X IdsOf(parts) : x[1] # x[2]}}

\* the selected_ids of a delete form: one id or two
Selections(rows) ==
    {<<a>> : a \in IdsOf(rows)}
        \cup {x \in IdsOf(rows) \X IdsOf(rows) : x[1] # x[2]}

-----------------------------------------------------------------------------
(* The application: requests served one after another *)

Init ==
    /\ db = EmptyTables
    /\ sess = Session(EmptyTables)
    /\ enforce = TRUE
    /\ pc = "idle"
    /\ file = EmptyFile
    /\ i = 1
    /\ cnt = ZeroCounters
    /\ op = ""
    /\ exc = ""
    /\ before = EmptyTables
    /\ nreq = 0
    /\ arg = <<>>
    /\ ret = <<>>
    /\ procs = [w \in Workers |-> IdleWorker]

Next ==
    \/ \E f \in CoreFiles : ImportBegin(f)
    \/ ImportSimpleRow
    \/ ImportShopifyRow
    \/ ImportCommit
    \/ \E name \in BuildNames, fields \in FormsOf(db.parts) : CreateBuild(name, fields)
    \/ \E ids \in Selections(db.builds) : DeleteBuilds(ids)
    \/ \E ids \in Selections(db.parts) : DeletePartsBulk(ids)
    \/ \E id \in IdsOf(db.parts) : DeletePart(id)
    \/ Respond

Spec == Init /\ [][Next]_vars

-----------------------------------------------------------------------------
(* The importers alone, on an empty catalog, over a database file that may  *)
(* or may not carry the unique indexes (create_all never alters a table    *)
(* that exists)                                                            *)

InitImports ==
    /\ db = EmptyTables
    /\ sess = Session(EmptyTables)
    /\ enforce \in BOOLEAN
    /\ pc = "idle"
    /\ file = EmptyFile
    /\ i = 1
    /\ cnt = ZeroCounters
    /\ op = ""
    /\ exc = ""
    /\ before = EmptyTables
    /\ nreq = 0
    /\ arg = <<>>
    /\ ret = <<>>
    /\ procs = [w \in Workers |-> IdleWorker]

NextImports ==
    \/ \E f \in ImportFiles : ImportBegin(f)
    \/ ImportSimpleRow
    \/ ImportShopifyRow
    \/ ImportCommit
    \/ Respond

SpecImports == InitImports /\ [][NextImports]_vars

-----------------------------------------------------------------------------
(* Shopify exports with a Handle column: one product on several lines *)

HandleHeader == <<"Handle", "Title", "Body (HTML)", "Status">>

\* a product line; an image line of the same handle, title and description
\* blank; later lines of the handle that repeat the title with a shorter
\* table or carry another title; a second product, as a draft and active
HandleLines ==
    {<<"h1", "PC1", Html3, "active">>, <<"h1", "", "", "">>,
     <<"h1", "PC1", Html2, "active">>, <<"h1", "PC2", Html2, "active">>,
     <<"h2", "PC2", Html2, "draft">>, <<"h2", "PC2", Html2, "active">>}

HandleFiles == FilesOf(HandleHeader, HandleLines)

NextHandles ==
    \/ \E f \in HandleFiles : ImportBegin(f)
    \/ ImportShopifyRow
    \/ ImportCommit
    \/ Respond

SpecHandles == Init /\ [][NextHandles]_vars

-----------------------------------------------------------------------------
(* Part files with a Price column *)

PriceHeader == <<"Name", "Category", "Price">>

\* one part with a price, the same price written with a currency sign, no
\* price, a price that is no number, zero, the part named without its
\* category at another price, and a price cell that says nan
PriceLines ==
    {<<"i7", "CPU", "10">>, <<"i7", "CPU", "$10">>, <<"i7", "CPU", "">>,
     <<"i7", "CPU", "n/a">>, <<"i7", "CPU", "0">>, <<"i7", "", "20">>,
     <<"i7", "CPU", "nan">>}

PriceFiles == FilesOf(PriceHeader, PriceLines)

NextUpdates ==
    \/ \E f \in PriceFiles : ImportBegin(f)
    \/ ImportSimpleRow
    \/ ImportCommit
    \/ Respond

SpecUpdates == Init /\ [][NextUpdates]_vars

-----------------------------------------------------------------------------
(* _pick called on its own *)

\* _pick(row, *candidates, default=default): what it returns, or the
\* exception it raises
PickCall(row, candidates, default) ==
    IF PickRaises(row) THEN [exc |-> "AttributeError", value |-> None]
    ELSE [exc |-> "", value |-> PickFrom(Lowered(row.items), candidates, default)]

\* header names of a two-column file: spellings of Name, and other columns
PickHeaderNames == {"Name", "NAME", " Name ", "Title", "Category"}

\* lines under them: values present, blank, padded, missing, and in surplus
PickLines ==
    {<<"i7", "hdd">>, <<" i7 ", "hdd">>, <<"  ", "hdd">>, <<"", "hdd">>,
     <<"i7", "">>, <<"i7">>, <<"i7", "hdd", "x">>}

PickCandidates ==
    {<<"Name">>, <<"Title", "Name">>, <<"Name", "Title">>,
     <<"Product Name", "Name", "Part", "Item", "Title">>}

PickArgs ==
    {[row |-> DictRow(<<h1, h2>>, line), candidates |-> c, default |-> d] :
        h1 \in PickHeaderNames, h2 \in PickHeaderNames, line \in PickLines,
        c \in PickCandidates, d \in {None, "unknown"}}

InitPick ==
    /\ db = EmptyTables
    /\ sess = Session(EmptyTables)
    /\ enforce = TRUE
    /\ pc = "call"
    /\ file = EmptyFile
    /\ i = 1
    /\ cnt = ZeroCounters
    /\ op = "_pick"
    /\ exc = ""
    /\ before = EmptyTables
    /\ nreq = 0
    /\ arg \in PickArgs
    /\ ret = <<>>
    /\ procs = [w \in Workers |-> IdleWorker]

Pick ==
    /\ pc = "call" /\ op = "_pick"
    /\ pc' = "return"
    /\ ret' = PickCall(arg.row, arg.candidates, arg.default)
    /\ UNCHANGED <<db, sess, enforce, file, i, cnt, op, exc, before, nreq, arg, procs>>

SpecPick == InitPick /\ [][Pick]_vars

-----------------------------------------------------------------------------
(* _parse_price called on its own *)

\* blank, comma, currency sign, the letters of Tk and of nan, digits, dot, sign
PriceChars == {" ", ",", "$", "T", "k", "0", "1", ".", "-", "n", "a"}

PriceTexts == {NoText} \cup SeqsUpTo(PriceChars, MaxPriceLen)

PriceCall(val) == [exc |-> "", value |-> _parse_price(val)]

InitPrice ==
    /\ db = EmptyTables
    /\ sess = Session(EmptyTables)
    /\ enforce = TRUE
    /\ pc = "call"
    /\ file = EmptyFile
    /\ i = 1
    /\ cnt = ZeroCounters
    /\ op = "_parse_price"
    /\ exc = ""
    /\ before = EmptyTables
    /\ nreq = 0
    /\ arg \in PriceTexts
    /\ ret = <<>>
    /\ procs = [w \in Workers |-> IdleWorker]

ParsePrice ==
    /\ pc = "call" /\ op = "_parse_price"
    /\ pc' = "return"
    /\ ret' = PriceCall(arg)
    /\ UNCHANGED <<db, sess, enforce, file, i, cnt, op, exc, before, nreq, arg, procs>>

SpecPrice == InitPrice /\ [][ParsePrice]_vars

-----------------------------------------------------------------------------
(* Two imports side by side.  Each worker has its own session on the one    *)
(* SQLite file (line 20).  A statement of a transaction that has not        *)
(* written reads what is committed; a transaction that has written holds    *)
(* the write lock until it commits or rolls back, and a statement of the    *)
(* other worker that writes waits for it.  The steps are the statements of  *)
(* the simple importer that reach the database.                             *)

Other(w) == 3 - w

\* what worker w's next statement works on
View(w) ==
    IF procs[w].dirty THEN procs[w].sess
    ELSE [Session(db) EXCEPT !.pparts = procs[w].sess.pparts]

\* the row worker w is at
RaceRow(w) == DictRow(procs[w].file.header, procs[w].file.rows[procs[w].i])

RaceCategoryName(w) ==
    _pick(RaceRow(w), <<"Category", "Category Name", "Type", "Group">>)

RaceProductName(w) ==
    _pick(RaceRow(w), <<"Product Name", "Name", "Part", "Item", "Title">>)

\* a statement that flushes pending rows or changes a table is a write
Writes(w, s) == View(w).pparts # <<>> \/ Tables(s) # Tables(View(w))

\* the row whose INSERT a flush of the pending rows refuses
LostPart(s) ==
    IF s.pparts # <<>> THEN <<"part", Head(s.pparts).name>> ELSE <<>>

\* worker w's statement has left session s: on an exception the request ends
\* and the transaction is rolled back, otherwise the worker goes on at
\* position to with the control state and locals given
Advance(w, s, to, row, cat, lost) ==
    /\ Writes(w, s) => ~procs[Other(w)].dirty
    /\ procs' = [procs EXCEPT ![w] =
           IF s.exc # ""
           THEN [@ EXCEPT !.pc = "done", !.exc = s.exc, !.lost = lost,
                          !.sess = Session(EmptyTables), !.dirty = FALSE]
           ELSE LET wrote == @.dirty \/ Tables(s) # Tables(View(w))
                IN  [@ EXCEPT !.pc = to, !.i = row, !.cat = cat, !.dirty = wrote,
                              !.sess = IF wrote THEN s
                                       ELSE [Session(EmptyTables) EXCEPT
                                                 !.pparts = s.pparts]]]
    /\ UNCHANGED <<db, sess, enforce, pc, file, i, cnt, op, exc, before, nreq, arg, ret>>

\* the route reads the upload and the simple importer enters its loop
RaceBegin(w, f) ==
    /\ procs[w].pc = "idle"
    /\ ~IsShopifyHeader(f.header)
    /\ procs' = [procs EXCEPT ![w] = [IdleWorker EXCEPT !.pc = "row", !.file = f]]
    /\ UNCHANGED <<db, sess, enforce, pc, file, i, cnt, op, exc, before, nreq, arg, ret>>

\* lines 488-498: the fields of the row; a row without a name is passed
\* over; the query for the row's category, before which the session flushes
RaceLookup(w) ==
    /\ procs[w].pc = "row"
    /\ procs[w].i <= Len(procs[w].file.rows)
    /\ IF PickRaises(RaceRow(w))
       THEN Advance(w, Raise(View(w), "AttributeError"), "done", procs[w].i, 0, <<>>)
       ELSE IF RaceProductName(w) = None
       THEN Advance(w, View(w), "row", procs[w].i + 1, 0, <<>>)
       ELSE IF RaceCategoryName(w) = None
       THEN Advance(w, View(w), "part", procs[w].i, 0, <<>>)
       ELSE LET s   == Flush(View(w))
                cat == FirstCategory(s, Strip(RaceCategoryName(w)))
            IN  Advance(w, s, IF cat = 0 THEN "create" ELSE "part",
                        procs[w].i, cat, LostPart(View(w)))

\* lines 499-501: no category was found, one is added and flushed
RaceCreate(w) ==
    /\ procs[w].pc = "create"
    /\ ~procs[Other(w)].dirty
    /\ LET s == InsertCategory(View(w), Strip(RaceCategoryName(w)))
       IN  Advance(w, s, "part", procs[w].i,
                   FirstCategory(s, Strip(RaceCategoryName(w))),
                   <<"category", Strip(RaceCategoryName(w))>>)

\* lines 502-519: the part is looked up, and added or brought up to date
RacePart(w) ==
    /\ procs[w].pc = "part"
    /\ Advance(w, UpsertPart(View(w), ZeroCounters, RaceRow(w), procs[w].cat).s,
               "row", procs[w].i + 1, 0, LostPart(View(w)))

\* line 390: the importer has returned and the route commits
RaceCommit(w) ==
    /\ procs[w].pc = "row"
    /\ procs[w].i > Len(procs[w].file.rows)
    /\ Writes(w, Flush(View(w))) => ~procs[Other(w)].dirty
    /\ LET s == Flush(View(w))
       IN  /\ db' = IF s.exc # "" THEN db ELSE Tables(s)
           /\ procs' = [procs EXCEPT ![w] =
                  [@ EXCEPT !.pc = "done", !.exc = s.exc,
                            !.lost = IF s.exc # "" THEN LostPart(View(w)) ELSE <<>>,
                            !.sess = Session(EmptyTables), !.dirty = FALSE]]
    /\ UNCHANGED <<sess, enforce, pc, file, i, cnt, op, exc, before, nreq, arg, ret>>

\* part lines of the concurrent imports: a categorized part, an
\* uncategorized one, a line without a name
RaceLines == {<<"i7", "CPU">>, <<"hdd", "">>, <<"", "CPU">>}

RaceFiles == FilesOf(SimpleHeader, RaceLines)

NextRace ==
    \/ \E w \in Workers, f \in RaceFiles : RaceBegin(w, f)
    \/ \E w \in Workers : RaceLookup(w)
    \/ \E w \in Workers : RaceCreate(w)
    \/ \E w \in Workers : RacePart(w)
    \/ \E w \in Workers : RaceCommit(w)

SpecRace == InitImports /\ [][NextRace]_vars

-----------------------------------------------------------------------------
(* Properties *)

\* what a finished import is: the request just served was an upload
ImportDone == pc = "done" /\ op = "import"

\* the name of category id c in tables d, "" for no category
CategoryName(d, c) ==
    IF c = 0 THEN "" ELSE (CHOOSE x \in d.cats : x.id = c).name

\* the build of that name an import resolves: the oldest one
BuildNamed(d, name) ==
    CHOOSE b \in d.builds :
        b.name = name /\ \A x \in d.builds : x.name = name => b.id <= x.id

\* the lines of build b in tables d
LinesOf(d, b) == {l \in d.links : l.build = b}

\* the lines of build b as <<category name, part name>>
PairsOf(d, b) ==
    {<<CategoryName(d, p.cat), p.name>> :
        p \in {x \in d.parts : \E l \in LinesOf(d, b) : l.part = x.id}}

\* the title of a product line, trimmed
TitleOf(line) == IF line[1] = " PC1 " THEN "PC1" ELSE line[1]

\* product line k of f is one the Shopify importer acts on: as long as the
\* header, with a title, a description holding markup, and a status that is
\* blank or some spelling of active
Imported(f, k) ==
    LET line == f.rows[k]
    IN  /\ Len(line) = Len(f.header)
        /\ line[1] # ""
        /\ line[2] \in HtmlTexts
        /\ line[3] \in {"", "active", " active ", "ACTIVE"}

LastOfTitle(f, k) ==
    \A j \in DOMAIN f.rows :
        j > k /\ Imported(f, j) => TitleOf(f.rows[j]) # TitleOf(f.rows[k])

\* the <<category, part name>> rows each description of the vocabulary lists
ExpectedPairs(html) ==
    CASE html = Html3     -> {<<"CPU", "i7">>, <<"Storage", "ssd">>, <<"Storage", "hdd">>}
      [] html = Html2     -> {<<"CPU", "i7">>, <<"Storage", "ssd">>}
      [] html = HtmlDup   -> {<<"Storage", "ssd">>}
      [] html = HtmlCross -> {<<"CPU", "ssd">>}
      [] html = HtmlNoise -> {<<"CPU", "i7">>}
      [] OTHER            -> {}

\* C1 (upsert uniqueness): whatever simple and Shopify imports ran on an empty
\* catalog, with or without the unique indexes, no two Part rows share a name
\* and a category, in the committed tables and in the running session.
UniquePairs(parts) ==
    \A p \in parts, q \in parts : p.name = q.name /\ p.cat = q.cat => p.id = q.id

C1_UpsertUniqueness == UniquePairs(db.parts) /\ UniquePairs(sess.parts)

\* a second import named i7 under CPU, padded, after one had created it, and
\* the catalog holds one name under two categories
C1_Witness ==
    /\ ImportDone /\ exc = ""
    /\ \E k \in DOMAIN file.rows : file.rows[k] = <<" i7 ", " CPU ">>
    /\ \E p \in before.parts : p.name = "i7" /\ CategoryName(before, p.cat) = "CPU"
    /\ \E p \in db.parts, q \in db.parts : p.name = q.name /\ p.cat # q.cat

\* C2 (idempotence of re-import): right after an import of a Shopify file,
\* from any catalog, importing the same file again leaves the committed
\* Build, Category, Part and BuildPart rows as they are.
C2_ReimportIdempotent ==
    ImportDone /\ cnt.mode = "shopify" => ImportRequest(db, file).tables = db

\* an import that updated a build, created another and created parts and lines
C2_Witness ==
    /\ ImportDone /\ cnt.mode = "shopify" /\ exc = ""
    /\ cnt.builds_updated >= 1 /\ cnt.builds_created >= 1
    /\ cnt.parts_created >= 1 /\ cnt.links_created >= 3
    /\ db # before

\* C3 (full replace): after a Shopify import that succeeded, the lines of the
\* build of each imported product are exactly the <<category, part>> rows of
\* the table of that product's last line in the file, one line each, of
\* quantity 1; no earlier line of the build survives.
C3_FullReplace ==
    ImportDone /\ cnt.mode = "shopify" /\ exc = "" =>
        \A k \in DOMAIN file.rows :
            Imported(file, k) /\ LastOfTitle(file, k) =>
                LET b == BuildNamed(db, TitleOf(file.rows[k])).id
                    expected == ExpectedPairs(file.rows[k][2])
                IN  /\ PairsOf(db, b) = expected
                    /\ Cardinality(LinesOf(db, b)) = Cardinality(expected)
                    /\ \A l \in LinesOf(db, b) : l.quantity = 1

\* three lines before, two after the import of the two-row table
C3_Witness ==
    /\ ImportDone /\ exc = ""
    /\ file = [header |-> ShopifyHeader, rows |-> <<<<"PC1", Html2, "active">>>>]
    /\ \E b \in before.builds :
          /\ b = BuildNamed(before, "PC1")
          /\ Cardinality(LinesOf(before, b.id)) = 3
          /\ Cardinality(LinesOf(db, b.id)) = 2

\* C4 (one line per build and part): no two BuildPart rows share a build and
\* a part, and an import whose table names one part on two rows of a category
\* does not fail on the second: it leaves that part's one line.
C4_RelinkUpdates ==
    /\ \A l \in db.links, m \in db.links :
          l.build = m.build /\ l.part = m.part => l = m
    /\ ImportDone /\ file = [header |-> ShopifyHeader, rows |-> <<<<"PC2", HtmlDup, "">>>>]
          => /\ exc = ""
             /\ \E b \in db.builds :
                   b.name = "PC2" /\ Cardinality(LinesOf(db, b.id)) = 1

\* C5 (skip policy): the turn of the Shopify loop on a line whose Status
\* column holds something other than blank or a spelling of active leaves
\* the session's tables, its pending objects and the committed tables as
\* they are and counts the row as seen only, unless the line raises.
StatusOf(f, k) ==
    LET cols == {c \in DOMAIN f.header : f.header[c] = "Status" /\ c <= Len(f.rows[k])}
    IN  IF cols = {} THEN "" ELSE f.rows[k][Max(cols)]

InactiveLine(f, k) == StatusOf(f, k) \notin {"", "active", " active ", "ACTIVE"}

C5_SkipPolicy ==
    [][pc = "shopify" /\ i <= Len(file.rows) /\ InactiveLine(file, i) =>
          \/ exc' # ""
          \/ /\ sess' = sess
             /\ db' = db
             /\ cnt' = [cnt EXCEPT !.rows_seen = @ + 1]]_vars

\* the second line, a draft with a title and a table, was passed over after
\* the first line had created a build
C5_Witness ==
    /\ pc = "shopify" /\ i = 3
    /\ InactiveLine(file, 2)
    /\ file.rows[2][1] # "" /\ file.rows[2][2] \in HtmlTexts
    /\ Get(DictRow(file.header, file.rows[2]).items, "Body (HTML)") \in HtmlTexts
    /\ cnt.builds_created = 1 /\ cnt.rows_seen = 2

\* C6 (build resolution by name): whatever imports ran on an empty catalog,
\* build names are trimmed titles, no two Builds share a name, and
\* builds_created is the number of Builds the Shopify import has added.
UniqueBuildNames(builds) ==
    \A a \in builds, b \in builds : a.name = b.name => a.id = b.id

C6_BuildByName ==
    /\ UniqueBuildNames(db.builds) /\ UniqueBuildNames(sess.builds)
    /\ \A b \in sess.builds : b.name \in {"PC1", "PC2"}
    /\ pc = "shopify" \/ (ImportDone /\ cnt.mode = "shopify" /\ exc = "") =>
          /\ before.builds \subseteq sess.builds
          /\ Cardinality(sess.builds) = Cardinality(before.builds) + cnt.builds_created

\* an import found one title's build, by its padded title, and created another
C6_Witness ==
    /\ ImportDone /\ cnt.mode = "shopify" /\ exc = ""
    /\ cnt.builds_updated = 1 /\ cnt.builds_created = 1
    /\ \E k \in DOMAIN file.rows : file.rows[k][1] = " PC1 "

\* C7 (cascade integrity): every BuildPart row, committed or in the session,
\* refers to a Part and to a Build that exist.
NoOrphans(d) ==
    \A l \in d.links :
        /\ \E p \in d.parts : p.id = l.part
        /\ \E b \in d.builds : b.id = l.build

C7_CascadeIntegrity == NoOrphans(db) /\ NoOrphans(sess)

\* a part deletion took a part that a build's line referred to
C7_Witness ==
    /\ pc = "done" /\ op \in {"delete_part", "delete_parts_bulk"} /\ exc = ""
    /\ \E l \in before.links : ~ \E p \in db.parts : p.id = l.part

\* C8 (all or nothing): while an import runs the committed tables are those
\* it began with, and when it ends with an exception they still are.
C8_AllOrNothing ==
    /\ pc \in {"simple", "shopify"} => db = before
    /\ ImportDone /\ exc # "" => db = before

\* a constraint violation after a row that had added to the catalog
C8_Witness ==
    /\ ImportDone /\ exc = "IntegrityError"
    /\ i >= 2
    /\ cnt.parts_added + cnt.builds_created >= 1

\* C9 (soft failures stay in their row): an import ends, in its exception and
\* in the committed tables, as the import of the same file without its
\* malformed lines would: those without a name or title, those shorter than
\* the header and those longer.
Malformed(f, k) == Len(f.rows[k]) # Len(f.header) \/ f.rows[k][1] \in {"", "  "}

RECURSIVE WellFormed(_, _)
WellFormed(f, k) ==
    IF k > Len(f.rows) THEN <<>>
    ELSE IF Malformed(f, k) THEN WellFormed(f, k + 1)
    ELSE <<f.rows[k]>> \o WellFormed(f, k + 1)

C9_SoftFailuresIsolated ==
    ImportDone /\ (\E k \in DOMAIN file.rows : Malformed(file, k)) =>
        LET r == ImportRequest(before, [file EXCEPT !.rows = WellFormed(file, 1)])
        IN  exc = r.exc /\ db = r.tables

\* C10 (format dispatch): the importer runs in mode shopify exactly when a
\* header is a spelling of Body (HTML), padded or in another case, and in
\* mode simple otherwise; the upload of a file without a header line ends
\* without an exception, all counters zero and the tables as they were.
BodyColumn == {"Body (HTML)", "body (html)", " Body (HTML) ", "BODY (HTML)"}

C10_FormatDispatch ==
    /\ pc \in {"simple", "shopify"} \/ ImportDone =>
          cnt.mode = IF \E k \in DOMAIN file.header : file.header[k] \in BodyColumn
                     THEN "shopify" ELSE "simple"
    /\ ImportDone /\ file.header = <<>> =>
          /\ exc = ""
          /\ db = before
          /\ cnt = [ZeroCounters EXCEPT !.mode = "simple"]

\* a file whose description header is padded went through the Shopify loop
C10_Witness ==
    /\ ImportDone /\ exc = ""
    /\ file.header = <<"Title", " Body (HTML) ", "Status">>
    /\ cnt.mode = "shopify" /\ cnt.rows_seen = 2

\* C13 (part identity scoped by category): a simple import that names one
\* part under two categories ends without an exception and leaves two Part
\* rows of that name, one per category; a row without a category resolves
\* the part by name alone and adds an uncategorized Part only when no Part
\* of that name exists.
C13_PartScopedByCategory ==
    /\ ImportDone /\ file = [header |-> SimpleHeader,
                             rows |-> <<<<"i7", "CPU">>, <<"i7", "Storage">>>>]
          => /\ exc = ""
             /\ \E p \in db.parts, q \in db.parts :
                   /\ p.name = "i7" /\ q.name = "i7"
                   /\ CategoryName(db, p.cat) = "CPU"
                   /\ CategoryName(db, q.cat) = "Storage"
    /\ ImportDone /\ exc = "" /\ file = [header |-> SimpleHeader, rows |-> <<<<"hdd", "">>>>]
          => /\ (\E p \in before.parts : p.name = "hdd") => db.parts = before.parts
             /\ Cardinality({p \in db.parts : p.name = "hdd"}) >= 1

\* C14 (category uniqueness): whatever imports ran on an empty catalog, with
\* or without the unique indexes, no two Category rows share a name and every
\* name is a trimmed one, in the committed tables and in the running session.
UniqueCategoryNames(cats) ==
    \A a \in cats, b \in cats : a.name = b.name => a.id = b.id

C14_CategoryUniqueness ==
    /\ UniqueCategoryNames(db.cats) /\ UniqueCategoryNames(sess.cats)
    /\ \A c \in sess.cats \cup db.cats : c.name \notin {" CPU ", "", "  "}

\* an import naming the category padded found the CPU category of an earlier
\* import, and a Shopify import had found it as well
C14_Witness ==
    /\ ImportDone /\ exc = "" /\ nreq = 3
    /\ \E k \in DOMAIN file.rows : file.rows[k] = <<" i7 ", " CPU ">>
    /\ \E c \in before.cats : c.name = "CPU"
    /\ \E c \in before.cats : c.name = "Storage"
    /\ db.cats = before.cats

\* C20 (detection and field reading agree): an import that ran in Shopify
\* mode and succeeded leaves a Build for the title of every line that has a
\* title, a description with markup and the status active, however the
\* header spells its columns; and a file whose lines all say Draft in the
\* status column leaves the builds as they were.
DraftOnly(f) ==
    /\ Len(f.header) = 3
    /\ f.rows # <<>>
    /\ \A k \in DOMAIN f.rows : Len(f.rows[k]) = 3 /\ f.rows[k][3] \in {"draft", "Draft"}

C20_DetectionAndReadingAgree ==
    ImportDone /\ cnt.mode = "shopify" /\ exc = "" =>
        /\ \A k \in DOMAIN file.rows :
              file.rows[k] = <<"PC1", Html2, "active">> =>
                  \E b \in db.builds : b.name = "PC1"
        /\ DraftOnly(file) => db.builds = before.builds

\* the first line of every handle of a file with a Handle column, in order
RECURSIVE GroupHeads(_, _)
GroupHeads(rows, seen) ==
    IF rows = <<>> THEN <<>>
    ELSE IF Head(rows)[1] \in seen THEN GroupHeads(Tail(rows), seen)
    ELSE <<Head(rows)>> \o GroupHeads(Tail(rows), seen \cup {Head(rows)[1]})

\* C11 (handle grouping): an import of a file with a Handle column ends, in
\* its exception and in the committed tables, as the import of the first
\* line of every handle alone would: the later lines of a handle neither
\* create or update a Build nor change a Build's lines.
C11_HandleGrouping ==
    ImportDone /\ file.header = HandleHeader =>
        LET r == ImportRequest(before, [file EXCEPT !.rows = GroupHeads(file.rows, {})])
        IN  exc = r.exc /\ db = r.tables

\* the products of a file that an import acts on: the first lines of the
\* handles that have a title, a description with markup and a status that is
\* blank or active
ActiveProducts(f) ==
    SelectSeq(GroupHeads(f.rows, {}),
              LAMBDA line : /\ line[2] # ""
                            /\ line[3] \in HtmlTexts
                            /\ line[4] \in {"", "active"})

RECURSIVE SpecRows(_)
SpecRows(lines) ==
    IF lines = <<>> THEN 0
    ELSE Cardinality(ExpectedPairs(Head(lines)[3])) + SpecRows(Tail(lines))

\* C12 (counters on re-import): when an import of a file with a Handle column
\* has succeeded, the import of the same file again reports builds_created
\* 0, builds_updated the number of active, valid products of the file, and
\* links_created the number of recognized rows of their tables, which the
\* first import reported as well.
C12_ReimportCounters ==
    ImportDone /\ file.header = HandleHeader /\ exc = "" =>
        LET second == ImportRequest(db, file)
        IN  /\ second.exc = ""
            /\ second.cnt.builds_created = 0
            /\ second.cnt.builds_updated = Len(ActiveProducts(file))
            /\ second.cnt.links_created = SpecRows(ActiveProducts(file))
            /\ second.cnt.links_created = cnt.links_created

\* C15 (field picker precedence): _pick returns, without raising, the value
\* of the first candidate, in candidate order, that some header equals once
\* both are trimmed and put in lower case and whose value is not blank once
\* trimmed, and the default when there is none; stated for the rows whose
\* headers stay distinct under that matching.
Matching(items, candidate) ==
    {k \in DOMAIN items : Lower(Strip(items[k][1])) = Lower(Strip(candidate))}

RECURSIVE ClaimedPick(_, _, _)
ClaimedPick(items, candidates, default) ==
    LET at == Matching(items, Head(candidates))
        v  == items[Max(at)][2]
    IN  IF candidates = <<>> THEN default
        ELSE IF at # {} /\ v # None /\ Strip(v) # "" THEN v
        ELSE ClaimedPick(items, Tail(candidates), default)

DistinctHeaders(items) ==
    \A j \in DOMAIN items, k \in DOMAIN items :
        Lower(Strip(items[j][1])) = Lower(Strip(items[k][1])) => j = k

C15_PickPrecedence ==
    pc = "return" /\ op = "_pick" /\ DistinctHeaders(arg.row.items) =>
        /\ ret.exc = ""
        /\ ret.value = ClaimedPick(arg.row.items, arg.candidates, arg.default)

\* a text that denotes a number once its surrounding blanks are gone: an
\* optional sign, then digits with at most one dot among them
NumberText(s) ==
    LET t    == StripChars(s)
        body == IF t # <<>> /\ Head(t) \in {"-", "+"} THEN Tail(t) ELSE t
    IN  /\ \E k \in DOMAIN body : body[k] \in Digits
        /\ \A k \in DOMAIN body : body[k] \in Digits \cup {"."}
        /\ Cardinality({k \in DOMAIN body : body[k] = "."}) <= 1

\* the text with its surrounding blanks, its commas and the currency tokens
\* removed
Cleaned(s) == ReplaceEach(Replace(StripChars(s), <<",">>), CurrencyTokens)

\* C16 (price absence versus zero): _parse_price does not raise; for an
\* absent text and for a text that is empty, blank or not a number once
\* commas and currency tokens are removed it returns absent; and it returns
\* zero only for a text whose digits are all 0.
C16_PriceAbsentOrNumber ==
    pc = "return" /\ op = "_parse_price" =>
        /\ ret.exc = ""
        /\ arg = NoText \/ ~NumberText(Cleaned(arg)) => ret.value = Absent
        /\ ret.value.kind = "float" /\ ret.value.val = 0 =>
              /\ arg # NoText
              /\ NumberText(Cleaned(arg))
              /\ \A k \in DOMAIN arg : arg[k] \in Digits => arg[k] = "0"

\* the price cell of line k of a file with a Price column, blank or not
PricedLine(f, k) == f.header = PriceHeader /\ f.rows[k][3] \notin {"", "  "}

\* C17 (non-destructive update): a turn of the simple importer's loop that
\* does not raise keeps every part there was, with its name and category;
\* it changes a part's price only when the row's price cell is not blank;
\* it leaves no part that had a price without one; and it adds to
\* parts_updated the number of parts whose price it changed.  And a part
\* that had a price stored before an import has one stored after it.
C17_RowUpdate ==
    pc = "simple" /\ i <= Len(file.rows) /\ exc' = "" =>
        LET had     == Flush(sess).parts
            changed == {p \in had : \E q \in sess'.parts : q.id = p.id /\ q.price # p.price}
        IN  /\ \A p \in had : \E q \in sess'.parts :
                  /\ q.id = p.id /\ q.name = p.name /\ q.cat = p.cat
                  /\ p.price # Absent => q.price # Absent
            /\ changed # {} => PricedLine(file, i)
            /\ cnt'.parts_updated = cnt.parts_updated + Cardinality(changed)

C17_StoredPriceKept ==
    ImportDone /\ exc = "" =>
        \A p \in before.parts : \E q \in db.parts :
            /\ q.id = p.id /\ q.name = p.name /\ q.cat = p.cat
            /\ p.price # Absent => q.price # Absent

C17_NonDestructiveUpdate == [][C17_RowUpdate]_vars /\ []C17_StoredPriceKept

\* C18 (storage-conflict recovery): an import that ended on a uniqueness
\* violation had repeated its lookup and found nothing, so the row whose
\* creation was refused is not in the database: no Category of the name it
\* meant to create, no Part of the name it had added.
C18_ConflictRecovery ==
    \A w \in Workers :
        procs[w].exc = "IntegrityError" =>
            /\ procs[w].lost[1] = "category" =>
                   FirstCategory(Session(db), procs[w].lost[2]) = 0
            /\ procs[w].lost[1] = "part" =>
                   \A p \in db.parts : p.name # procs[w].lost[2]

\* C19 (find-or-create race): with the unique indexes in force, in every
\* interleaving of two imports no two Category rows share a name and no two
\* Part rows share a name and a category, in the committed tables and in the
\* tables of a transaction that has written.
UniquePartPairs(parts) ==
    \A a \in parts, b \in parts : a.name = b.name /\ a.cat = b.cat => a.id = b.id

C19_NoDuplicatesUnderConstraint ==
    enforce =>
        /\ UniqueCategoryNames(db.cats) /\ UniquePartPairs(db.parts)
        /\ \A w \in Workers :
               procs[w].dirty =>
                   /\ UniqueCategoryNames(procs[w].sess.cats)
                   /\ UniquePartPairs(procs[w].sess.parts)

\* without the indexes two imports of one category name, each having looked
\* it up before the other created it, have both committed their own row
C19_Witness ==
    /\ ~enforce
    /\ \A w \in Workers : procs[w].pc = "done" /\ procs[w].exc = ""
    /\ \E a \in db.cats, b \in db.cats : a.id # b.id /\ a.name = b.name

====
